---- MODULE Spec2Model ----
(***************************************************************************)
(* pshaw (Persistent Shell Archive Wrapper), src/pshaw.py.                 *)
(*                                                                         *)
(* Every invocation of the program (pshaw create|connect|list ...) is a    *)
(* process.  The processes share the session directories ~/.pshaw/<label>  *)
(* and the advisory flock(1) lock of each session; everything else (argv,  *)
(* environment, terminal, open file objects) is private to an invocation.  *)
(* An invocation advances one filesystem or process operation at a time,   *)
(* its position kept in pc.                                                *)
(***************************************************************************)
EXTENDS Integers, Sequences, FiniteSets, TLC

(***************************************************************************)
(* Bounds of the model.                                                    *)
(***************************************************************************)
NProcs == 2          \* terminals from which pshaw is invoked
MaxInv == 2          \* invocations started in one behaviour, from all terminals
MaxSeqInv == 1       \* invocations started in one behaviour, from one terminal
MaxConn == 2         \* invocations started in one behaviour of a session's life
MaxJobs == 1         \* background processes a session's shells leave running
MaxOut == 1          \* chunks of output the user's commands print per connection
MaxCmds == 1         \* commands the user runs per connection
MaxLen == 4          \* length of the files the rotation law is checked on
MaxSize == 3         \* largest line limit the rotation law is checked with

(***************************************************************************)
(* Program constants.  The source prunes to 1000000 lines; the model keeps *)
(* the same code with a limit small enough for files to exceed it.         *)
(***************************************************************************)
logsize == 2
historysize == 1
ConflictExitCode == 200

Procs == 1..NProcs

NL == "\n"
ESC == "\\033c"

(* Characters of the class [-0-9a-zA-Z] of valid_label. *)
SafeChars ==
  {"-"} \cup {"0","1","2","3","4","5","6","7","8","9"}
  \cup {"a","b","c","d","e","f","g","h","i","j","k","l","m",
        "n","o","p","q","r","s","t","u","v","w","x","y","z"}
  \cup {"A","B","C","D","E","F","G","H","I","J","K","L","M",
        "N","O","P","Q","R","S","T","U","V","W","X","Y","Z"}

(* Inputs of an invocation. *)
Labels == {<<"a">>, <<"a", "!">>}
Shells == {"/bin/bash", "/bin/zsh"}
Dirs == {<<"/p">>, <<"/q">>, <<"/p", " ", "q">>}
Home == <<"/h">>
Argvs ==
  {<<"pshaw">>, <<"pshaw", "list">>}
  \cup {<<"pshaw", c, l>> : c \in {"create", "connect", "list", "attach"}, l \in Labels}
ExitCodes == {0, ConflictExitCode}

VARIABLES
  fs,        \* ~/.pshaw: existing label -> (existing file name -> content)
  lock,      \* label -> the process holding flock on <label>/lock, how; or free
  pc,        \* position of each invocation
  inv,       \* os.environ['SHELL'] and Path.cwd() of each invocation
  args,      \* the dictionary parse_arguments returned
  status,    \* the variable status of run()
  exitcode,  \* exit status of the finished invocation
  stderr,    \* what the invocation wrote to sys.stderr
  term,      \* bytes the invocation wrote to its terminal (sys.stdout)
  logfd,     \* the file object of logpath.open('ab'): where it points
  logbuf,    \* bytes written to that file object and not yet flushed
  tr,        \* the call of truncate() in progress: path, oldpath, size, where it
             \* returns to, and (history) the content of path when it was called
  tfd,       \* the file object of path.open('wb') in truncate()
  sh,        \* the child of pty.spawn: flock and the shell it runs under the lock
  wrote,     \* history variable: files the invocation created, wrote or moved
  ninv,      \* invocations that may still be started
  conn,      \* history variable, of each connection: log as run() found it, the
             \* bytes of it replayed, the bytes its file object added to log
  hist,      \* history variable, of each session: all that its shells printed,
             \* and the directory its last shell was in at its last prompt
  jobs       \* label -> background processes of the session's shells that are
             \* alive and have inherited the descriptor of the lock file

vars == <<fs, lock, pc, inv, args, status, exitcode, stderr, term, logfd, logbuf,
          tr, tfd, sh, wrote, ninv, conn, hist, jobs>>

(***************************************************************************)
(* The filesystem.  A file a process holds open stays the same file when   *)
(* it is renamed, and is out of everyone's sight once its name is taken by *)
(* another file: an open file object points at the name its file has now,  *)
(* or is Detached.                                                         *)
(***************************************************************************)
NoFd == <<"closed">>
Detached == <<"detached">>

Exists(f, l) == l \in DOMAIN f
FileExists(f, l, n) == l \in DOMAIN f /\ n \in DOMAIN f[l]
Content(f, l, n) == f[l][n]

(* Path.mkdir(parents=True, exist_ok=True) *)
Mkdir(f, l) == IF l \in DOMAIN f THEN f ELSE (l :> <<>>) @@ f

(* Create the file or replace its content (open for writing, 'w'/'wb'). *)
PutFile(f, l, n, c) == [f EXCEPT ![l] = (n :> c) @@ @]

(* Path.touch(): create the file empty if it does not exist. *)
Touch(f, l, n) == IF n \in DOMAIN f[l] THEN f ELSE PutFile(f, l, n, <<>>)

(* Mutant of AppendFile: the file was opened with 'wb', its content lost. *)
AppendFileTruncating(f, l, n, data) == [f EXCEPT ![l][n] = data]

(* A write of data through a file object opened with 'ab' (O_APPEND). *)
AppendFile(f, l, n, data) == [f EXCEPT ![l][n] = @ \o data]

(* A write of data at offset 0, where a file object opened with 'wb' stands. *)
OverwriteFile(f, l, n, data) ==
  [f EXCEPT ![l][n] = data \o SubSeq(@, Len(data) + 1, Len(@))]

(* os.rename(src, dst) of shutil.move: dst is replaced. *)
Rename(f, l, src, dst) ==
  [f EXCEPT ![l] = [n \in (DOMAIN @ \ {src}) \cup {dst} |->
                      IF n = dst THEN @[src] ELSE @[n]]]

(* Where an open file object points after os.rename(src, dst) in l. *)
FdAfterRename(fd, l, src, dst) ==
  IF fd = <<l, dst>> THEN Detached
  ELSE IF fd = <<l, src>> THEN <<l, dst>>
  ELSE fd

(***************************************************************************)
(* tail -n size: the last size lines of the file, read backwards from its  *)
(* end; a last line without newline counts as a line.                      *)
(***************************************************************************)
RECURSIVE TailStart(_, _, _)
TailStart(c, i, n) ==
  \* scanning c[1..i] backwards with n more newlines to pass: where the tail starts
  IF i = 0 THEN 1
  ELSE IF c[i] = NL
       THEN IF n = 0 THEN i + 1 ELSE TailStart(c, i - 1, n - 1)
       ELSE TailStart(c, i - 1, n)

(* Mutant of TailN: the count of newlines to pass is off by one. *)
TailNOneMore(c, size) ==
  IF size = 0 \/ c = <<>> THEN <<>>
  ELSE LET last == IF c[Len(c)] = NL THEN Len(c) - 1 ELSE Len(c)
       IN SubSeq(c, TailStart(c, last, size), Len(c))

TailN(c, size) ==
  IF size = 0 \/ c = <<>> THEN <<>>
  ELSE LET last == IF c[Len(c)] = NL THEN Len(c) - 1 ELSE Len(c)
       IN SubSeq(c, TailStart(c, last, size - 1), Len(c))

(***************************************************************************)
(* parse_arguments(): the dictionary args, whether usage() was called,     *)
(* and what was written to stderr before.                                  *)
(***************************************************************************)
(* valid_label.match(label) is not None, for '^[-0-9a-zA-Z]+$': in Python  *)
(* $ also matches before a newline that ends the string.                   *)
LabelMatches(label) ==
  LET n == IF Len(label) > 0 /\ label[Len(label)] = NL THEN Len(label) - 1
           ELSE Len(label)
  IN n >= 1 /\ \A i \in 1..n : label[i] \in SafeChars

parse_arguments(argv) ==
  IF Len(argv) <= 1 \/ Len(argv) > 3
  THEN [usage |-> TRUE, err |-> <<>>, command |-> "", label |-> <<>>]
  ELSE IF argv[2] = "list"
  THEN IF Len(argv) # 2
       THEN [usage |-> TRUE, err |-> <<>>, command |-> "", label |-> <<>>]
       ELSE [usage |-> FALSE, err |-> <<>>, command |-> "list", label |-> <<>>]
  ELSE IF Len(argv) # 3 \/ (argv[2] # "create" /\ argv[2] # "connect")
  THEN [usage |-> TRUE, err |-> <<>>, command |-> "", label |-> <<>>]
  ELSE [usage |-> FALSE,
        err |-> IF LabelMatches(argv[3]) THEN <<>> ELSE <<"Invalid label">>,
        command |-> argv[2], label |-> argv[3]]

(* init_bash.format(data): the lines of the script that act on the session. *)
init_bash(label) ==
  <<"PSHAW_LABEL=", label, "source ~/.bashrc", "shopt -s histappend",
    "HISTFILE=history", "cd $(cat workdir)",
    "PROMPT_COMMAND=history -a; pwd > workdir; $PROMPT_COMMAND",
    "echo === Connected to session", label>>

(* What the echo of init_bash prints, as the bytes of one line. *)
Banner == <<"=", NL>>

(* cat workdir in a command substitution: trailing newlines are removed. *)
RECURSIVE StripNewlines(_)
StripNewlines(c) ==
  IF c # <<>> /\ c[Len(c)] = NL THEN StripNewlines(SubSeq(c, 1, Len(c) - 1)) ELSE c

(* The words the shell splits an unquoted command substitution into, at   *)
(* the blanks and newlines of IFS.                                         *)
RECURSIVE Words(_, _)
Words(c, word) ==
  IF c = <<>> THEN (IF word = <<>> THEN <<>> ELSE <<word>>)
  ELSE IF Head(c) \in {" ", NL}
       THEN (IF word = <<>> THEN <<>> ELSE <<word>>) \o Words(Tail(c), <<>>)
       ELSE Words(Tail(c), Append(word, Head(c)))

(* pwd > workdir *)
Pwd(d) == d \o <<NL>>

(* The status pty.spawn returns is os.waitpid(): it has the exit code of *)
(* child in bits 8..15.                                                    *)
WaitStatus(code) == code * 256

(* subprocess.run(...).returncode of a child that exited with code. *)
ReturnCode(code) == code

(***************************************************************************)
(* Initial state: no session exists, no invocation runs.                   *)
(***************************************************************************)
Free == [by |-> 0, how |-> "free"]
NoInv == [shell |-> "", cwd |-> <<>>]
NoArgs == [command |-> "", label |-> <<>>]
NoShell == [child |-> "none", code |-> 0, cwd |-> <<>>, ncmd |-> 0, nout |-> 0]
NoCall == [path |-> "", oldpath |-> "", size |-> 0, ret |-> "", pre |-> <<>>]
NoConn == [before |-> <<>>, replay |-> <<>>, logged |-> <<>>]
NoHist == [out |-> <<>>, dir |-> <<>>]

(* A session directory between connections: label l created from         *)
(* directory d, its first shell having exited after the commands cmds.    *)
(* Without a command history does not exist and its rotation has failed.  *)
SessionAfter(l, d, cmds) ==
  LET base == [n \in {"workdir", "log", "log.old", "lock", "init.bash"} |->
                 CASE n = "workdir" -> Pwd(d)
                   [] n = "log" -> TailN(Banner, logsize)
                   [] n = "log.old" -> Banner
                   [] n = "lock" -> <<>>
                   [] n = "init.bash" -> init_bash(l)]
  IN IF cmds = <<>> THEN base
     ELSE ("history" :> TailN(cmds, historysize)) @@ ("history.old" :> cmds) @@ base

(* The session directories an invocation may find. *)
InitialFs ==
  {<<>>}
  \cup {(<<"a">> :> SessionAfter(<<"a">>, <<"/p">>, cmds)) : cmds \in {<<>>, <<"c", NL>>}}

InitWith(n) ==
  /\ fs \in InitialFs
  /\ lock = [l \in Labels |-> Free]
  /\ pc = [p \in Procs |-> "idle"]
  /\ inv = [p \in Procs |-> NoInv]
  /\ args = [p \in Procs |-> NoArgs]
  /\ status = [p \in Procs |-> 0]
  /\ exitcode = [p \in Procs |-> 0]
  /\ stderr = [p \in Procs |-> <<>>]
  /\ term = [p \in Procs |-> <<>>]
  /\ logfd = [p \in Procs |-> NoFd]
  /\ logbuf = [p \in Procs |-> <<>>]
  /\ tr = [p \in Procs |-> NoCall]
  /\ tfd = [p \in Procs |-> NoFd]
  /\ sh = [p \in Procs |-> NoShell]
  /\ wrote = [p \in Procs |-> {}]
  /\ ninv = n
  /\ conn = [p \in Procs |-> NoConn]
  /\ jobs = [l \in Labels |-> 0]
  /\ hist = [l \in Labels |->
               IF l \in DOMAIN fs THEN [out |-> Banner, dir |-> <<"/p">>] ELSE NoHist]

Init == InitWith(MaxInv)

(* The invocation ends: sys.exit / exit(code), or the end of main(). *)
Exit(p, code, msgs) ==
  /\ pc' = [pc EXCEPT ![p] = "done"]
  /\ exitcode' = [exitcode EXCEPT ![p] = code]
  /\ stderr' = [stderr EXCEPT ![p] = @ \o msgs]
  /\ inv' = [inv EXCEPT ![p] = NoInv]
  /\ status' = [status EXCEPT ![p] = 0]
  /\ UNCHANGED args

(* The invocation goes on at position next. *)
Goto(p, next) ==
  /\ pc' = [pc EXCEPT ![p] = next]
  /\ UNCHANGED <<exitcode, stderr, inv, args, status>>

(* The same, run() having assigned st to status. *)
GotoStatus(p, next, st) ==
  /\ pc' = [pc EXCEPT ![p] = next]
  /\ status' = [status EXCEPT ![p] = st]
  /\ UNCHANGED <<exitcode, stderr, inv, args>>

(* The label the invocation works on. *)
Label(p) == args[p].label


(***************************************************************************)
(* main(): a new invocation parses its arguments and dispatches.           *)
(***************************************************************************)
Main(p, argv, shell, cwd) ==
  /\ pc[p] \in {"idle", "done"}
  /\ ninv > 0
  /\ ninv' = ninv - 1
  /\ LET a == parse_arguments(argv) IN
       /\ inv' = [inv EXCEPT ![p] =
                    IF a.usage THEN NoInv ELSE [shell |-> shell, cwd |-> cwd]]
       /\ args' = [args EXCEPT ![p] = [command |-> a.command, label |-> a.label]]
       /\ stderr' = [stderr EXCEPT ![p] =
                       IF a.usage THEN <<"Usage">> ELSE a.err]
       /\ exitcode' = [exitcode EXCEPT ![p] = IF a.usage THEN 1 ELSE 0]
       /\ pc' = [pc EXCEPT ![p] = IF a.usage THEN "done" ELSE a.command]
  /\ status' = [status EXCEPT ![p] = 0]
  /\ term' = [term EXCEPT ![p] = <<>>]
  /\ wrote' = [wrote EXCEPT ![p] = {}]
  /\ sh' = [sh EXCEPT ![p] = NoShell]
  /\ UNCHANGED <<fs, lock, logfd, logbuf, tr, tfd>>
  /\ conn' = [conn EXCEPT ![p] = NoConn]
  /\ UNCHANGED <<hist, jobs>>

(* list(): the names of the session directories; ~/.pshaw is made by the   *)
(* first create, and iterdir() of a missing directory raises.              *)
List(p) ==
  /\ pc[p] = "list"
  /\ IF fs = <<>>
     THEN /\ Exit(p, 1, <<"Traceback">>)
          /\ UNCHANGED term
     ELSE /\ Exit(p, 0, <<>>)
          /\ term' = [term EXCEPT ![p] = <<DOMAIN fs>>]
  /\ UNCHANGED <<fs, lock, logfd, logbuf, tr, tfd, sh, wrote, ninv>>
  /\ UNCHANGED <<conn, hist, jobs>>

(***************************************************************************)
(* create(label)                                                           *)
(***************************************************************************)
(* Mutant of CreateExists: the message is written, usage() is not called. *)
CreateExistsNoExit(p) ==
  /\ pc[p] = "create"
  /\ pc' = [pc EXCEPT ![p] = "create_mkdir"]
  /\ stderr' = [stderr EXCEPT ![p] =
                  IF Exists(fs, Label(p)) THEN @ \o <<"already exists">> ELSE @]
  /\ UNCHANGED <<fs, lock, inv, args, status, exitcode, term, logfd, logbuf, tr, tfd,
                 sh, wrote, ninv>>
  /\ UNCHANGED <<conn, hist, jobs>>

CreateExists(p) ==
  /\ pc[p] = "create"
  /\ IF Exists(fs, Label(p))
     THEN Exit(p, 1, <<"already exists", "Usage">>)
     ELSE Goto(p, "create_mkdir")
  /\ UNCHANGED <<fs, lock, term, logfd, logbuf, tr, tfd, sh,
                 wrote, ninv>>
  /\ UNCHANGED <<conn, hist, jobs>>

CreateMkdir(p) ==
  /\ pc[p] = "create_mkdir"
  /\ fs' = Mkdir(fs, Label(p))
  /\ wrote' = [wrote EXCEPT ![p] = IF Exists(fs, Label(p)) THEN @ ELSE @ \cup {"dir"}]
  /\ Goto(p, "create_workdir")
  /\ UNCHANGED <<lock, term, logfd, logbuf, tr, tfd, sh, ninv>>
  /\ UNCHANGED <<conn, hist, jobs>>

(* Mutant of CreateWorkdir: the home directory is written, not cwd. *)
CreateWorkdirHome(p) ==
  /\ pc[p] = "create_workdir"
  /\ fs' = PutFile(fs, Label(p), "workdir", Home)
  /\ wrote' = [wrote EXCEPT ![p] = @ \cup {"workdir"}]
  /\ Goto(p, "create_touch")
  /\ UNCHANGED <<lock, term, logfd, logbuf, tr, tfd, sh, ninv>>
  /\ UNCHANGED <<conn, hist, jobs>>

(* workpath.write_text(str(Path.cwd())) *)
CreateWorkdir(p) ==
  /\ pc[p] = "create_workdir"
  /\ fs' = PutFile(fs, Label(p), "workdir", inv[p].cwd)
  /\ wrote' = [wrote EXCEPT ![p] = @ \cup {"workdir"}]
  /\ Goto(p, "create_touch")
  /\ UNCHANGED <<lock, term, logfd, logbuf, tr, tfd, sh, ninv>>
  /\ UNCHANGED <<conn, hist, jobs>>

CreateTouch(p) ==
  /\ pc[p] = "create_touch"
  /\ fs' = Touch(fs, Label(p), "log")
  /\ wrote' = [wrote EXCEPT ![p] =
                 IF FileExists(fs, Label(p), "log") THEN @ ELSE @ \cup {"log"}]
  /\ Goto(p, "run")
  /\ UNCHANGED <<lock, term, logfd, logbuf, tr, tfd, sh, ninv>>
  /\ UNCHANGED <<conn, hist, jobs>>

(***************************************************************************)
(* connect(label)                                                          *)
(***************************************************************************)
(* Mutant of ConnectExists: the message is written, usage() is not called. *)
ConnectExistsNoExit(p) ==
  /\ pc[p] = "connect"
  /\ pc' = [pc EXCEPT ![p] = "run"]
  /\ stderr' = [stderr EXCEPT ![p] =
                  IF ~Exists(fs, Label(p)) THEN @ \o <<"not found">> ELSE @]
  /\ UNCHANGED <<fs, lock, inv, args, status, exitcode, term, logfd, logbuf, tr, tfd,
                 sh, wrote, ninv>>
  /\ UNCHANGED <<conn, hist, jobs>>

ConnectExists(p) ==
  /\ pc[p] = "connect"
  /\ IF ~Exists(fs, Label(p))
     THEN Exit(p, 1, <<"not found", "Usage">>)
     ELSE Goto(p, "run")
  /\ UNCHANGED <<fs, lock, term, logfd, logbuf, tr, tfd, sh,
                 wrote, ninv>>
  /\ UNCHANGED <<conn, hist, jobs>>

(***************************************************************************)
(* run(label)                                                              *)
(***************************************************************************)
Locked == <<"Session locked">>

(* Mutant of FlockConflict: the lock is not tried. *)
FlockNeverConflicts(l) == FALSE

(* flock --nonblock --conflict-exit-code 200 lockpath command: whether     *)
(* flock finds the lock held, and exits with the conflict code.  flock is  *)
(* run without --close: the command and every process it starts inherit    *)
(* the descriptor of the lock file, and the lock lasts as long as any of   *)
(* them has it open.                                                       *)
FlockConflict(l) == lock[l].how # "free" \/ jobs[l] > 0

(* flock opens lockpath, creating it, before it tries the lock. *)
FlockOpen(p, l) ==
  /\ fs' = Touch(fs, l, "lock")
  /\ wrote' = [wrote EXCEPT ![p] = IF FileExists(fs, l, "lock") THEN @ ELSE @ \cup {"lock"}]

(* Mutant of ProbeConflict: the return code is read as a wait status. *)
ProbeConflictShifted(st) == st = 200 * 256

(* Whether run() stops after the probe: status == 200. *)
ProbeConflict(st) == st = 200

(* The shell check, then the probe: flock ... /bin/true takes the lock.    *)
RunProbe(p) ==
  /\ pc[p] = "run"
  /\ IF inv[p].shell # "/bin/bash"
     THEN /\ Exit(p, 1, <<"Unknown Shell", "Usage">>)
          /\ UNCHANGED <<fs, wrote, lock>>
     ELSE /\ FlockOpen(p, Label(p))
          /\ IF FlockConflict(Label(p))
             THEN /\ IF ProbeConflict(ReturnCode(ConflictExitCode))
                     THEN Exit(p, 1, Locked)
                     ELSE GotoStatus(p, "init", ReturnCode(ConflictExitCode))
                  /\ UNCHANGED lock
             ELSE /\ lock' = [lock EXCEPT ![Label(p)] = [by |-> p, how |-> "probe"]]
                  /\ Goto(p, "probe_wait")
  /\ UNCHANGED <<term, logfd, logbuf, tr, tfd, sh, ninv>>
  /\ conn' = [conn EXCEPT ![p].before =
                IF FileExists(fs, Label(p), "log") THEN Content(fs, Label(p), "log")
                ELSE <<>>]
  /\ UNCHANGED <<hist, jobs>>

(* /bin/true exits, the probe's lock is released, subprocess.run returns.  *)
RunProbeDone(p) ==
  /\ pc[p] = "probe_wait"
  /\ lock' = [lock EXCEPT ![Label(p)] = Free]
  /\ GotoStatus(p, "init", ReturnCode(0))
  /\ UNCHANGED <<fs, term, logfd, logbuf, tr, tfd, sh, wrote, ninv>>
  /\ UNCHANGED <<conn, hist, jobs>>

(* initpath.write_text(...) *)
RunInit(p) ==
  /\ pc[p] = "init"
  /\ fs' = PutFile(fs, Label(p), "init.bash", init_bash(Label(p)))
  /\ wrote' = [wrote EXCEPT ![p] = @ \cup {"init.bash"}]
  /\ Goto(p, "replay")
  /\ UNCHANGED <<lock, term, logfd, logbuf, tr, tfd, sh, ninv>>
  /\ UNCHANGED <<conn, hist, jobs>>

(* Mutant of RunReplay: sys.stdout is not flushed, and what was written to *)
(* it is still in its buffer when pty writes to the terminal.              *)
RunReplayUnflushed(p) ==
  /\ pc[p] = "replay"
  /\ IF FileExists(fs, Label(p), "log")
     THEN Goto(p, "openlog")
     ELSE Exit(p, 1, <<"Traceback">>)
  /\ conn' = [conn EXCEPT ![p].replay =
                IF FileExists(fs, Label(p), "log") THEN Content(fs, Label(p), "log")
                ELSE <<>>]
  /\ UNCHANGED <<fs, lock, term, logfd, logbuf, tr, tfd, sh, wrote, ninv, hist, jobs>>

(* Clear the terminal, write the log to it, flush.  When log is missing,   *)
(* open raises and the clear sequence is flushed as the interpreter exits. *)
RunReplay(p) ==
  /\ pc[p] = "replay"
  /\ IF FileExists(fs, Label(p), "log")
     THEN /\ term' = [term EXCEPT ![p] = <<ESC>> \o Content(fs, Label(p), "log")]
          /\ Goto(p, "openlog")
     ELSE /\ term' = [term EXCEPT ![p] = <<ESC>>]
          /\ Exit(p, 1, <<"Traceback">>)
  /\ UNCHANGED <<fs, lock, logfd, logbuf, tr, tfd, sh, wrote, ninv>>
  /\ conn' = [conn EXCEPT ![p].replay =
                IF FileExists(fs, Label(p), "log") THEN Content(fs, Label(p), "log")
                ELSE <<>>]
  /\ UNCHANGED <<hist, jobs>>

(* logpath.open('ab') *)
RunOpenLog(p) ==
  /\ pc[p] = "openlog"
  /\ fs' = Touch(fs, Label(p), "log")
  /\ wrote' = [wrote EXCEPT ![p] =
                 IF FileExists(fs, Label(p), "log") THEN @ ELSE @ \cup {"log"}]
  /\ logfd' = [logfd EXCEPT ![p] = <<Label(p), "log">>]
  /\ Goto(p, "spawn")
  /\ UNCHANGED <<lock, term, logbuf, tr, tfd, sh, ninv>>
  /\ UNCHANGED <<conn, hist, jobs>>

(* The directory the shell is in after cd $(cat workdir), not quoted: the  *)
(* text of the file without its trailing newlines is split into words.     *)
(* One word is the directory; without a word (no file, or an empty one) cd *)
(* goes to the home directory; with more than one, cd fails (too many      *)
(* arguments) and the shell stays in the directory pshaw was started in.   *)
CdWorkdir(f, l, cwd) ==
  LET ws == IF FileExists(f, l, "workdir")
            THEN Words(StripNewlines(Content(f, l, "workdir")), <<>>)
            ELSE <<>>
  IN IF ws = <<>> THEN Home
     ELSE IF Len(ws) = 1 THEN ws[1]
     ELSE cwd

(* What PROMPT_COMMAND does to the session's files before a prompt, the    *)
(* shell being in directory d and having run the commands cmds since the   *)
(* last prompt: history -a appends them, creating history for the first.   *)
Prompt(f, l, d, cmds) ==
  LET h == IF cmds = <<>> THEN f
           ELSE IF FileExists(f, l, "history") THEN AppendFile(f, l, "history", cmds)
           ELSE PutFile(f, l, "history", cmds)
  IN PutFile(h, l, "workdir", Pwd(d))

(* pty.spawn(command, read): flock either exits with the conflict code, or *)
(* takes the lock and runs the shell, which reads init.bash and comes to   *)
(* its first prompt.                                                       *)
RunSpawn(p) ==
  /\ pc[p] = "spawn"
  /\ IF FlockConflict(Label(p))
     THEN /\ FlockOpen(p, Label(p))
          /\ sh' = [sh EXCEPT ![p].child = "refused", ![p].code = ConflictExitCode]
          /\ GotoStatus(p, "closelog", WaitStatus(ConflictExitCode))
          /\ UNCHANGED <<lock, logbuf, term>>
     ELSE LET d == CdWorkdir(fs, Label(p), inv[p].cwd) IN
          /\ lock' = [lock EXCEPT ![Label(p)] = [by |-> p, how |-> "shell"]]
          /\ sh' = [sh EXCEPT ![p] = [child |-> "running", code |-> 0, cwd |-> d,
                                       ncmd |-> 0, nout |-> 0]]
          /\ logbuf' = [logbuf EXCEPT ![p] = @ \o Banner]
          /\ term' = [term EXCEPT ![p] = @ \o Banner]
          /\ fs' = Prompt(Touch(fs, Label(p), "lock"), Label(p), d, <<>>)
          /\ wrote' = [wrote EXCEPT ![p] =
                         (IF FileExists(fs, Label(p), "lock") THEN @ ELSE @ \cup {"lock"})
                         \cup {"workdir"}]
          /\ Goto(p, "running")
  /\ UNCHANGED <<logfd, tr, tfd, ninv>>
  /\ hist' = IF FlockConflict(Label(p)) THEN hist
              ELSE [hist EXCEPT ![Label(p)] =
                      [out |-> @.out \o Banner,
                       dir |-> CdWorkdir(fs, Label(p), inv[p].cwd)]]
  /\ UNCHANGED <<conn, jobs>>

(* The shell prints; read() puts the bytes into the log's file object and  *)
(* pty copies them to the terminal.                                        *)
ShellOutput(p, b) ==
  /\ pc[p] = "running"
  /\ sh[p].nout < MaxOut
  /\ sh' = [sh EXCEPT ![p].nout = @ + 1]
  /\ logbuf' = [logbuf EXCEPT ![p] = @ \o <<b>>]
  /\ term' = [term EXCEPT ![p] = @ \o <<b>>]
  /\ UNCHANGED <<fs, lock, pc, inv, args, status, exitcode, stderr, logfd, tr, tfd,
                 wrote, ninv>>
  /\ hist' = [hist EXCEPT ![Label(p)].out = @ \o <<b>>]
  /\ UNCHANGED <<conn, jobs>>

(* The user runs a command that leaves the shell in directory d; the next  *)
(* prompt saves the command and the directory.                             *)
ShellCmd(p, d) ==
  /\ pc[p] = "running"
  /\ sh[p].ncmd < MaxCmds
  /\ sh' = [sh EXCEPT ![p].ncmd = @ + 1, ![p].cwd = d]
  /\ fs' = Prompt(fs, Label(p), d, <<"c", NL>>)
  /\ wrote' = [wrote EXCEPT ![p] = @ \cup {"history", "workdir"}]
  /\ UNCHANGED <<lock, pc, inv, args, status, exitcode, stderr, term, logfd, logbuf,
                 tr, tfd, ninv>>
  /\ hist' = [hist EXCEPT ![Label(p)].dir = d]
  /\ UNCHANGED <<conn, jobs>>

(* The user starts a background job that outlives the shell (nohup, a      *)
(* daemon): a process that has the descriptor of the lock file, as the     *)
(* shell has it from flock.                                                *)
ShellJob(p) ==
  /\ pc[p] = "running"
  /\ jobs[Label(p)] < MaxJobs
  /\ jobs' = [jobs EXCEPT ![Label(p)] = @ + 1]
  /\ UNCHANGED <<fs, lock, pc, inv, args, status, exitcode, stderr, term, logfd,
                 logbuf, tr, tfd, sh, wrote, ninv, conn, hist>>

(* A background job of session l ends. *)
JobExit(l) ==
  /\ jobs[l] > 0
  /\ jobs' = [jobs EXCEPT ![l] = @ - 1]
  /\ UNCHANGED <<fs, lock, pc, inv, args, status, exitcode, stderr, term, logfd,
                 logbuf, tr, tfd, sh, wrote, ninv, conn, hist>>

(* The buffer of a file object opened with 'ab' is written to its file. *)
Flush(f, fd, buf) ==
  IF fd \in {NoFd, Detached} \/ buf = <<>> THEN f
  ELSE AppendFile(f, fd[1], fd[2], buf)

(* The buffered writer of the log writes its buffer out when it is full. *)
LogFlush(p) ==
  /\ pc[p] = "running"
  /\ logbuf[p] # <<>>
  /\ fs' = Flush(fs, logfd[p], logbuf[p])
  /\ logbuf' = [logbuf EXCEPT ![p] = <<>>]
  /\ wrote' = [wrote EXCEPT ![p] = IF logfd[p] = Detached THEN @ ELSE @ \cup {logfd[p][2]}]
  /\ UNCHANGED <<lock, pc, inv, args, status, exitcode, stderr, term, logfd, tr, tfd,
                 sh, ninv>>
  /\ conn' = [conn EXCEPT ![p].logged =
                IF logfd[p] = <<Label(p), "log">> THEN @ \o logbuf[p] ELSE @]
  /\ UNCHANGED <<hist, jobs>>

(* The shell exits with code: its lock goes with it, pty.spawn returns. *)
ShellExit(p, code) ==
  /\ pc[p] = "running"
  /\ lock' = [lock EXCEPT ![Label(p)] = Free]
  /\ sh' = [sh EXCEPT ![p] = [NoShell EXCEPT !.child = "exited", !.code = code]]
  /\ GotoStatus(p, "closelog", WaitStatus(code))
  /\ UNCHANGED <<fs, term, logfd, logbuf, tr, tfd, wrote, ninv>>
  /\ UNCHANGED <<conn, hist, jobs>>

(* The frame of a call truncate(path, oldpath, size) that returns to ret. *)
Call(f, l, path, oldpath, size, ret) ==
  [path |-> path, oldpath |-> oldpath, size |-> size, ret |-> ret,
   pre |-> IF FileExists(f, l, path) THEN Content(f, l, path) ELSE <<>>]

(* Whether run() takes the lock-conflict branch. *)
IsLockConflict(st) == st = 200

(* The with block of the log ends (flush, close); then the test of status: *)
(* the first call of truncate, or the lock-conflict message and exit(1).   *)
RunCloseLog(p) ==
  /\ pc[p] = "closelog"
  /\ fs' = Flush(fs, logfd[p], logbuf[p])
  /\ wrote' = [wrote EXCEPT ![p] =
                 IF logfd[p] = Detached \/ logbuf[p] = <<>> THEN @ ELSE @ \cup {logfd[p][2]}]
  /\ logbuf' = [logbuf EXCEPT ![p] = <<>>]
  /\ logfd' = [logfd EXCEPT ![p] = NoFd]
  /\ IF ~IsLockConflict(status[p])
     THEN /\ tr' = [tr EXCEPT ![p] = Call(fs', Label(p), "log", "log.old", logsize,
                                           "truncate_history")]
          /\ Goto(p, "truncate")
     ELSE /\ Exit(p, 1, Locked)
          /\ UNCHANGED tr
  /\ UNCHANGED <<lock, term, tfd, sh, ninv>>
  /\ conn' = [conn EXCEPT ![p].logged =
                IF logfd[p] = <<Label(p), "log">> THEN @ \o logbuf[p] ELSE @]
  /\ UNCHANGED <<hist, jobs>>

(* truncate(historypath, basepath / 'history.old', historysize) *)
RunTruncateHistory(p) ==
  /\ pc[p] = "truncate_history"
  /\ tr' = [tr EXCEPT ![p] = Call(fs, Label(p), "history", "history.old", historysize,
                                   "disconnected")]
  /\ Goto(p, "truncate")
  /\ UNCHANGED <<fs, lock, term, logfd, logbuf, tfd, sh, wrote, ninv>>
  /\ UNCHANGED <<conn, hist, jobs>>

(* print('=== Disconnected ...'), and main() ends. *)
RunDisconnected(p) ==
  /\ pc[p] = "disconnected"
  /\ term' = [term EXCEPT ![p] = @ \o <<"Disconnected">>]
  /\ tr' = [tr EXCEPT ![p] = NoCall]
  /\ Exit(p, 0, <<>>)
  /\ UNCHANGED <<fs, lock, logfd, logbuf, tfd, sh, wrote, ninv>>
  /\ UNCHANGED <<conn, hist, jobs>>

(***************************************************************************)
(* truncate(path, oldpath, size)                                           *)
(***************************************************************************)
(* shutil.move(path, oldpath); it raises when path does not exist. *)
TruncateMove(p) ==
  /\ pc[p] = "truncate"
  /\ LET l == Label(p) c == tr[p] IN
     IF FileExists(fs, l, c.path)
     THEN /\ fs' = Rename(fs, l, c.path, c.oldpath)
          /\ logfd' = [q \in Procs |-> FdAfterRename(logfd[q], l, c.path, c.oldpath)]
          /\ tfd' = [q \in Procs |-> FdAfterRename(tfd[q], l, c.path, c.oldpath)]
          /\ wrote' = [wrote EXCEPT ![p] = @ \cup {c.path, c.oldpath}]
          /\ Goto(p, "truncate_open")
          /\ UNCHANGED tr
     ELSE /\ Exit(p, 1, <<"Traceback">>)
          /\ tr' = [tr EXCEPT ![p] = NoCall]
          /\ UNCHANGED <<fs, logfd, tfd, wrote>>
  /\ UNCHANGED <<lock, term, logbuf, sh, ninv>>
  /\ UNCHANGED <<conn, hist, jobs>>

(* path.open('wb'): the file is created, or emptied if it is there again. *)
TruncateOpen(p) ==
  /\ pc[p] = "truncate_open"
  /\ fs' = PutFile(fs, Label(p), tr[p].path, <<>>)
  /\ tfd' = [tfd EXCEPT ![p] = <<Label(p), tr[p].path>>]
  /\ wrote' = [wrote EXCEPT ![p] = @ \cup {tr[p].path}]
  /\ Goto(p, "truncate_write")
  /\ UNCHANGED <<lock, term, logfd, logbuf, tr, sh, ninv>>
  /\ UNCHANGED <<conn, hist, jobs>>

(* tail -n size oldpath is read and written to the file, which is closed;  *)
(* truncate returns.                                                       *)
TruncateWrite(p) ==
  /\ pc[p] = "truncate_write"
  /\ LET l == Label(p) c == tr[p]
         data == TailN(Content(fs, l, c.oldpath), c.size) IN
     /\ fs' = IF tfd[p] = Detached THEN fs
              ELSE OverwriteFile(fs, tfd[p][1], tfd[p][2], data)
     /\ wrote' = [wrote EXCEPT ![p] = IF tfd[p] = Detached THEN @ ELSE @ \cup {tfd[p][2]}]
     /\ tfd' = [tfd EXCEPT ![p] = NoFd]
     /\ Goto(p, c.ret)
  /\ UNCHANGED <<lock, term, logfd, logbuf, tr, sh, ninv>>
  /\ UNCHANGED <<conn, hist, jobs>>

(***************************************************************************)
(* The program.  One step of the invocation at terminal p, its inputs and  *)
(* what its user and shell do drawn from the sets of I.                    *)
(***************************************************************************)
Step(p, I) ==
  \/ \E argv \in I.argvs, shell \in I.shells, cwd \in I.dirs : Main(p, argv, shell, cwd)
  \/ List(p)
  \/ CreateExists(p)
  \/ CreateMkdir(p)
  \/ CreateWorkdir(p)
  \/ CreateTouch(p)
  \/ ConnectExists(p)
  \/ RunProbe(p)
  \/ RunProbeDone(p)
  \/ RunInit(p)
  \/ RunReplay(p)
  \/ RunOpenLog(p)
  \/ RunSpawn(p)
  \/ \E b \in I.bytes : ShellOutput(p, b)
  \/ \E d \in I.dirs : ShellCmd(p, d)
  \/ LogFlush(p)
  \/ \E code \in I.codes : ShellExit(p, code)
  \/ RunCloseLog(p)
  \/ RunTruncateHistory(p)
  \/ RunDisconnected(p)
  \/ TruncateMove(p)
  \/ TruncateOpen(p)
  \/ TruncateWrite(p)

(* Invocations from all terminals, interleaved, on one session. *)
Concurrent ==
  [argvs |-> {<<"pshaw", c, <<"a">>>> : c \in {"create", "connect"}} \cup {<<"pshaw", "list">>},
   shells |-> {"/bin/bash"}, dirs |-> {<<"/q">>}, bytes |-> {NL}, codes |-> {0}]

Next == \E p \in Procs : Step(p, Concurrent)

Spec == Init /\ [][Next]_vars

(* Invocations one after the other, from one terminal, with every input. *)
Sequential ==
  [argvs |-> Argvs, shells |-> Shells, dirs |-> Dirs, bytes |-> {"x", NL},
   codes |-> ExitCodes]

NextSeq == Step(1, Sequential)

InitSeq == InitWith(MaxSeqInv)

SpecSeq == InitSeq /\ [][NextSeq]_vars

(* The life of a session: creates, connections that end with exit status  *)
(* 0 of the shell, and lists, one after the other from one terminal.       *)
Reconnecting ==
  [argvs |-> {<<"pshaw", c, <<"a">>>> : c \in {"create", "connect"}} \cup {<<"pshaw", "list">>},
   shells |-> {"/bin/bash"}, dirs |-> Dirs, bytes |-> {"x", NL}, codes |-> {0}]

NextLife == Step(1, Reconnecting)

InitLife == InitWith(MaxConn)

SpecLife == InitLife /\ [][NextLife]_vars

(* The same, the user starting background jobs in the shells. *)
NextJobs == NextLife \/ ShellJob(1) \/ \E l \in Labels : JobExit(l)

SpecJobs == InitLife /\ [][NextJobs]_vars

(***************************************************************************)
(* truncate() alone, called on a file of up to MaxLen bytes with a limit   *)
(* of up to MaxSize lines, a backup of an earlier call there or not.       *)
(***************************************************************************)
RECURSIVE SeqsUpTo(_, _)
SeqsUpTo(S, n) ==
  IF n = 0 THEN {<<>>}
  ELSE LET shorter == SeqsUpTo(S, n - 1)
       IN shorter \cup {Append(c, b) : c \in shorter, b \in S}

InitRot ==
  /\ \E c \in SeqsUpTo({"x", NL}, MaxLen), old \in {<<>>, <<"x", NL>>},
        size \in 0..MaxSize :
       /\ fs = (<<"a">> :> [n \in {"log", "log.old"} |-> IF n = "log" THEN c ELSE old])
       /\ tr = [p \in Procs |->
                  IF p = 1 THEN Call(fs, <<"a">>, "log", "log.old", size, "returned")
                  ELSE NoCall]
  /\ lock = [l \in Labels |-> Free]
  /\ pc = [p \in Procs |-> IF p = 1 THEN "truncate" ELSE "idle"]
  /\ inv = [p \in Procs |-> NoInv]
  /\ args = [p \in Procs |->
               IF p = 1 THEN [command |-> "connect", label |-> <<"a">>] ELSE NoArgs]
  /\ status = [p \in Procs |-> 0]
  /\ exitcode = [p \in Procs |-> 0]
  /\ stderr = [p \in Procs |-> <<>>]
  /\ term = [p \in Procs |-> <<>>]
  /\ logfd = [p \in Procs |-> NoFd]
  /\ logbuf = [p \in Procs |-> <<>>]
  /\ tfd = [p \in Procs |-> NoFd]
  /\ sh = [p \in Procs |-> NoShell]
  /\ wrote = [p \in Procs |-> {}]
  /\ ninv = 0
  /\ conn = [p \in Procs |-> NoConn]
  /\ jobs = [l \in Labels |-> 0]
  /\ hist = [l \in Labels |-> NoHist]

NextRot == TruncateMove(1) \/ TruncateOpen(1) \/ TruncateWrite(1)

SpecRot == InitRot /\ [][NextRot]_vars

(***************************************************************************)
(* Properties.                                                             *)
(***************************************************************************)
Has(msgs, m) == \E i \in 1..Len(msgs) : msgs[i] = m

(* The invocations whose shell is running under the lock of session l. *)
Running(l) == {p \in Procs : pc[p] = "running" /\ args[p].label = l}

(* log, history and workdir of session l, as far as they exist. *)
SessionFiles(f, l) ==
  IF l \in DOMAIN f
  THEN [n \in DOMAIN f[l] \cap {"log", "history", "workdir"} |-> f[l][n]]
  ELSE <<>>

(* C1: Mutual exclusion.  In every reachable state, whatever the           *)
(* interleaving of create and connect invocations on a label, at most one  *)
(* shell runs under the session's lock, and it is the holder of the lock.  *)
C1_MutualExclusion ==
  \A l \in Labels :
    /\ Cardinality(Running(l)) <= 1
    /\ \A p \in Running(l) : lock[l] = [by |-> p, how |-> "shell"]

(* C1 witness: a shell runs under the lock while another invocation, which *)
(* had passed the probe, was refused the lock by flock at spawn.           *)
C1_Witness ==
  \E p, q \in Procs :
    /\ p # q /\ args[p].label = args[q].label
    /\ pc[p] = "running"
    /\ sh[q].child = "refused"

(* C2: a connect that probes the lock while the shell of another           *)
(* connection holds it ends there: lock-conflict message, exit status 1,   *)
(* no file of the session written, moved or created by the probe or by     *)
(* anything the invocation did before.                                     *)
C2_LateConnectRejected ==
  [][\A p \in Procs :
       (/\ pc[p] = "run" /\ pc'[p] # "run"
        /\ args[p].command = "connect"
        /\ inv[p].shell = "/bin/bash"
        /\ lock[args[p].label].how = "shell")
       => (/\ pc'[p] = "done"
           /\ exitcode'[p] = 1
           /\ Has(stderr'[p], "Session locked")
           /\ fs' = fs
           /\ wrote'[p] = {})]_vars

(* C2 witness: a connect has ended with the lock-conflict message and      *)
(* status 1 while the shell of the other connection is still running.      *)
C2_Witness ==
  \E p, q \in Procs :
    /\ p # q /\ args[p].label = args[q].label
    /\ pc[q] = "running"
    /\ pc[p] = "done" /\ args[p].command = "connect"
    /\ exitcode[p] = 1 /\ Has(stderr[p], "Session locked")
    /\ wrote[p] = {}

(* C3: of two connect invocations on a session, while the shell of one     *)
(* holds the lock no step of the other moves, truncates or writes log,     *)
(* history or workdir of that session.                                     *)
C3_ExclusiveOwnership ==
  [][\A l \in Labels : \A p \in Procs :
       (/\ lock[l].how = "shell" /\ lock[l].by # p
        /\ args[lock[l].by].command = "connect"
        /\ args[p].command = "connect" /\ args[p].label = l
        /\ pc'[p] # pc[p])
       => SessionFiles(fs', l) = SessionFiles(fs, l)]_vars

(* C4: an invocation whose wrapper was refused the lock at spawn (flock    *)
(* exited with the sentinel 200) never enters a rotation, and ends with    *)
(* the lock-conflict message and exit status 1, having made or replaced    *)
(* neither log.old nor history.old.                                        *)
C4_NoRotationAfterConflict ==
  \A p \in Procs :
    sh[p].child = "refused"
    => /\ pc[p] \in {"closelog", "done"}
       /\ pc[p] = "done"
          => /\ exitcode[p] = 1
             /\ Has(stderr[p], "Session locked")
             /\ wrote[p] \cap {"log.old", "history.old"} = {}

(* C5: a create on a label whose session directory exists fails with the   *)
(* already-exists message and exit status 1; the step leaves every file of *)
(* every session as it was, and the invocation has written nothing and has *)
(* started no shell.                                                       *)
C5_CreateExistingFails ==
  [][\A p \in Procs :
       (pc[p] = "create" /\ pc'[p] # "create" /\ args[p].label \in DOMAIN fs)
       => (/\ pc'[p] = "done"
           /\ exitcode'[p] = 1
           /\ Has(stderr'[p], "already exists")
           /\ fs' = fs
           /\ wrote'[p] = {}
           /\ sh'[p].child = "none")]_vars

(* C5 witness: a create has ended with the already-exists message.         *)
C5_Witness ==
  \E p \in Procs :
    /\ pc[p] = "done" /\ args[p].command = "create"
    /\ args[p].label \in DOMAIN fs
    /\ exitcode[p] = 1 /\ Has(stderr[p], "already exists")

(* C6: a connect on a label without session directory fails with the       *)
(* not-found message and exit status 1; nothing is created (no directory,  *)
(* no lock, no init script) and nothing is written to the terminal.        *)
C6_ConnectMissingFails ==
  [][\A p \in Procs :
       (pc[p] = "connect" /\ pc'[p] # "connect" /\ args[p].label \notin DOMAIN fs)
       => (/\ pc'[p] = "done"
           /\ exitcode'[p] = 1
           /\ Has(stderr'[p], "not found")
           /\ fs' = fs
           /\ args[p].label \notin DOMAIN fs'
           /\ wrote'[p] = {}
           /\ term'[p] = <<>>)]_vars

(* C6 witness: a connect has ended with the not-found message, and there   *)
(* is no directory for its label.                                          *)
C6_Witness ==
  \E p \in Procs :
    /\ pc[p] = "done" /\ args[p].command = "connect"
    /\ args[p].label \notin DOMAIN fs
    /\ exitcode[p] = 1 /\ Has(stderr[p], "not found")
    /\ term[p] = <<>>

(* C7: an invocation of create or connect whose label has a character      *)
(* outside [-0-9a-zA-Z] has ended with exit status 1 once its arguments    *)
(* are parsed, has created or written no file and has started no shell.    *)
C7_InvalidLabelRejected ==
  \A p \in Procs :
    (/\ args[p].command \in {"create", "connect"}
     /\ \E i \in 1..Len(args[p].label) : args[p].label[i] \notin SafeChars)
    => /\ pc[p] = "done"
       /\ exitcode[p] = 1
       /\ wrote[p] = {}
       /\ sh[p].child = "none"

(* C8: an invocation that ended with the unknown-shell message has exit    *)
(* status 1 and has created or written nothing: no session directory, no   *)
(* workdir, no log.                                                        *)
C8_UnsupportedShellNoMutation ==
  \A p \in Procs :
    (pc[p] = "done" /\ Has(stderr[p], "Unknown Shell"))
    => (exitcode[p] = 1 /\ wrote[p] = {})

(* The lines of a file, each with its newline; a rest without newline is   *)
(* the last line.                                                          *)
RECURSIVE Lines(_, _)
Lines(c, line) ==
  IF c = <<>> THEN (IF line = <<>> THEN <<>> ELSE <<line>>)
  ELSE IF Head(c) = NL THEN <<Append(line, NL)>> \o Lines(Tail(c), <<>>)
  ELSE Lines(Tail(c), Append(line, Head(c)))

RECURSIVE Concat(_)
Concat(ls) == IF ls = <<>> THEN <<>> ELSE Head(ls) \o Concat(Tail(ls))

Min(a, b) == IF a <= b THEN a ELSE b

(* The last k lines of a sequence of lines, joined. *)
LastLines(ls, k) == Concat(SubSeq(ls, Len(ls) - k + 1, Len(ls)))

(* C9: rotation law.  When truncate(path, oldpath, M) has returned, for a  *)
(* file that had N lines, oldpath holds those N lines and path holds the   *)
(* last min(N, M) of them in their order: unchanged when N <= M.           *)
C9_RotationLaw ==
  \A p \in Procs :
    pc[p] = "returned"
    => LET l == args[p].label
           ls == Lines(tr[p].pre, <<>>)
       IN /\ fs[l][tr[p].oldpath] = tr[p].pre
          /\ fs[l][tr[p].path] = LastLines(ls, Min(Len(ls), tr[p].size))
          /\ Len(ls) <= tr[p].size => fs[l][tr[p].path] = tr[p].pre

(* C9 witness: truncate has returned for a file of more lines than the     *)
(* limit, whose last line had no newline, and has cut it.                  *)
C9_Witness ==
  \E p \in Procs :
    /\ pc[p] = "returned"
    /\ tr[p].size > 0
    /\ Len(Lines(tr[p].pre, <<>>)) > tr[p].size
    /\ tr[p].pre[Len(tr[p].pre)] # NL
    /\ fs[args[p].label][tr[p].path] # tr[p].pre

(* C10: a connection whose shell has exited with a status other than the   *)
(* lock-conflict sentinel ends with exit status 0, having rotated log and  *)
(* history.                                                                *)
C10_NormalDisconnect ==
  \A p \in Procs :
    (pc[p] = "done" /\ sh[p].child = "exited" /\ sh[p].code # ConflictExitCode)
    => /\ exitcode[p] = 0
       /\ {"log.old", "history.old"} \subseteq wrote[p]

(* The states of a call of truncate between its steps: where a crash of    *)
(* the process leaves the files.                                           *)
InRotation(p) == pc[p] \in {"truncate", "truncate_open", "truncate_write"}

(* C11: crash-safe rotation.  At every step of a call truncate(path,       *)
(* oldpath, size), where a crash would leave the files as they are, the    *)
(* file at path exists and holds either all of its content from before the *)
(* call or all of the last size lines of it; and when it no longer holds   *)
(* the old content, oldpath holds all of it.                               *)
C11_CrashSafeRotation ==
  \A p \in Procs :
    InRotation(p)
    => LET l == args[p].label
           c == tr[p]
           ls == Lines(c.pre, <<>>)
       IN /\ FileExists(fs, l, c.path)
          /\ fs[l][c.path] \in {c.pre, LastLines(ls, Min(Len(ls), c.size))}
          /\ fs[l][c.path] # c.pre => fs[l][c.oldpath] = c.pre

(* What the invocation wrote to its terminal after the clear sequence and  *)
(* the replay of the log.                                                  *)
AfterReplay(p) == SubSeq(term[p], Len(conn[p].replay) + 2, Len(term[p]))

(* The invocation has closed the file object of the log after its shell    *)
(* exited, and has not ended yet.                                          *)
Rotating(p) ==
  /\ sh[p].child = "exited"
  /\ pc[p] \in {"truncate", "truncate_open", "truncate_write", "truncate_history"}

(* C12: tee exactness.  Once the shell of a connection has exited and the  *)
(* log is closed, the bytes the connection appended to log are the bytes   *)
(* it wrote to the terminal after the replay, in the same order, none      *)
(* missing in either.                                                      *)
C12_TeeExactness ==
  \A p \in Procs : Rotating(p) => conn[p].logged = AfterReplay(p)

(* C13: replay exactness.  When a connection that passed the probe has     *)
(* done its replay and has not yet spawned the shell, its terminal holds   *)
(* the clear sequence and then, byte for byte, the log as it was when the  *)
(* connection began.                                                       *)
C13_ReplayExactness ==
  \A p \in Procs :
    pc[p] \in {"openlog", "spawn"} => term[p] = <<ESC>> \o conn[p].before

(* A connection has ended with a normal disconnect. *)
Disconnected(p) ==
  /\ pc[p] = "done" /\ exitcode[p] = 0
  /\ args[p].command \in {"create", "connect"}
  /\ Has(term[p], "Disconnected")

(* C14: cumulative log.  After a connection that ended with a normal       *)
(* disconnect, with the connections of the session one after the other,    *)
(* log holds the last logsize lines of all that the shells of the session  *)
(* have printed since it was created, in the order of the connections, and *)
(* has no more than logsize lines.                                         *)
C14_CumulativeLog ==
  \A p \in Procs :
    Disconnected(p)
    => LET l == args[p].label
           ls == Lines(hist[l].out, <<>>)
       IN /\ fs[l]["log"] = LastLines(ls, Min(Len(ls), logsize))
          /\ Len(Lines(fs[l]["log"], <<>>)) <= logsize

(* C14 witness: the second of two connections has ended with a normal      *)
(* disconnect; both rotations have cut the log, and the output of the      *)
(* first connection ended without newline.                                 *)
C14_Witness ==
  \E p \in Procs :
    /\ Disconnected(p) /\ ninv = 0
    /\ LET out == hist[args[p].label].out
       IN /\ Len(Lines(out, <<>>)) = logsize + 2
          /\ \E i \in 1..(Len(out) - 1) : out[i] = "x" /\ out[i + 1] = "="

(* The processes flock has spawned under the lock of session l and that    *)
(* are alive: /bin/true of a probe, or the shell of a connection.          *)
SpawnedAlive(l) == {p \in Procs : args[p].label = l /\ pc[p] \in {"probe_wait", "running"}}

(* C15: lock release.  The lock of a session is held exactly as long as a  *)
(* process spawned under it is alive: once the shell has terminated, flock *)
(* finds the lock free, so that the next connect passes the probe and      *)
(* takes it.                                                               *)
C15_LockRelease ==
  \A l \in Labels : FlockConflict(l) <=> SpawnedAlive(l) # {}

(* C16: working-directory round trip.  When a shell is spawned in a        *)
(* session whose last shell was in directory D at its last prompt, workdir *)
(* holds D (one line, whatever rotations and rejected connects came in     *)
(* between) and the new shell starts in D.                                 *)
C16_WorkdirRoundTrip ==
  [][\A p \in Procs :
       (pc[p] = "spawn" /\ pc'[p] = "running" /\ hist[args[p].label].dir # <<>>)
       => LET l == args[p].label
              D == hist[l].dir
          IN /\ fs[l]["workdir"] = D \o <<NL>>
             /\ sh'[p].cwd = D]_vars

(* The invocation is in run() and has not yet spawned its shell. *)
BeforeShell(p) == pc[p] \in {"run", "probe_wait", "init", "replay", "openlog", "spawn"}

(* C17: when create, started in directory D for a label that had no        *)
(* session, has made the session and until the first shell is started,     *)
(* workdir holds D and log is empty; the replay of the first connection    *)
(* writes nothing after the clear sequence.                                *)
C17_CreateInitialState ==
  \A p \in Procs :
    (args[p].command = "create" /\ BeforeShell(p))
    => LET l == args[p].label
       IN /\ FileExists(fs, l, "workdir") /\ fs[l]["workdir"] = inv[p].cwd
          /\ FileExists(fs, l, "log") /\ fs[l]["log"] = <<>>
          /\ pc[p] \in {"openlog", "spawn"} => term[p] = <<ESC>>

(* C17 witness: a create started in a directory whose name has a blank has *)
(* done its replay and is about to spawn the first shell.                  *)
C17_Witness ==
  \E p \in Procs :
    /\ args[p].command = "create" /\ pc[p] = "spawn"
    /\ inv[p].cwd = <<"/p", " ", "q">>
    /\ term[p] = <<ESC>>

(* C18: replay ordering.  Until a connection has written the clear         *)
(* sequence and the whole log to its terminal, it has started no shell,    *)
(* shown nothing and recorded nothing, so that the replay reads a log      *)
(* without a byte of this connection; and whatever its shell prints comes  *)
(* on the terminal after the complete replay.                              *)
C18_ReplayOrdering ==
  \A p \in Procs :
    /\ pc[p] \in {"run", "probe_wait", "init", "replay"}
       => /\ sh[p].child = "none"
          /\ term[p] = <<>> /\ logbuf[p] = <<>> /\ conn[p].logged = <<>>
    /\ (sh[p].child # "none" \/ logbuf[p] # <<>> \/ conn[p].logged # <<>>)
       => /\ Len(term[p]) >= 1 + Len(conn[p].replay)
          /\ SubSeq(term[p], 1, 1 + Len(conn[p].replay)) = <<ESC>> \o conn[p].replay

(* C18 witness: a connection that replayed a log that was not empty has    *)
(* its shell running, and output of it is in the log.                      *)
C18_Witness ==
  \E p \in Procs :
    /\ pc[p] = "running"
    /\ conn[p].replay # <<>>
    /\ conn[p].logged # <<>>
    /\ Len(term[p]) > 1 + Len(conn[p].replay)

(* C19: single creation under concurrency.  Of two create invocations on   *)
(* one label whatever their interleaving, a step of one never writes       *)
(* workdir once workdir is there: the session is initialised once, and the *)
(* other create ends with the already-exists message.                      *)
C19_SingleCreation ==
  [][\A p \in Procs :
       (/\ pc[p] = "create_workdir" /\ pc'[p] # pc[p]
        /\ \E q \in Procs \ {p} :
             args[q].command = "create" /\ args[q].label = args[p].label)
       => ~FileExists(fs, args[p].label, "workdir")]_vars

====
